---- MODULE Spec2Model ----
(***************************************************************************)
(* Model of the MOPIc backend test router (Backend/test_router.py) and     *)
(* its repository functions (Backend/database/repository.py).              *)
(*                                                                         *)
(* State: the Question, Test, Score and User tables, the server's          *)
(* calendar date, and the in-flight POST /test requests (upload_test),     *)
(* each with its position in the handler and its local variables.          *)
(***************************************************************************)
EXTENDS Integers, Sequences, FiniteSets, TLC

(* ---------------------------- bounds ---------------------------------- *)
\* POST /test requests made in a behaviour, and rows the Score table may reach.
MaxSubs == 3
MaxScores == 2
\* POST /test requests made in a behaviour of the two-user system.
MaxUserSubs == 2

\* Registered users (User.id) and calendar dates.
Users == {1}
Days == {1, 2}
SubIds == 1..MaxSubs

(* ------------------- python values and conversions -------------------- *)
\* A python value with its dynamic type: str and int never compare equal.
PyStr(s) == [t |-> "str", v |-> s]
PyInt(n) == [t |-> "int", v |-> n]
PyEq(a, b) == a.t = b.t /\ a.v = b.v

DigitChars == <<"0", "1", "2", "3", "4", "5", "6", "7", "8", "9">>
IsDigit(c) == \E i \in 1..Len(DigitChars) : DigitChars[i] = c
\* int(q_num) of a one-character string; ValueError when it is no digit.
IntOf(c) == (CHOOSE i \in 1..Len(DigitChars) : DigitChars[i] = c) - 1

\* str.split(sep): the pieces of s between the occurrences of sep.
RECURSIVE SplitFrom(_, _, _, _)
SplitFrom(s, sep, i, cur) ==
    IF i > Len(s) THEN <<cur>>
    ELSE IF s[i] = sep THEN <<cur>> \o SplitFrom(s, sep, i + 1, <<>>)
    ELSE SplitFrom(s, sep, i + 1, Append(cur, s[i]))
Split(s, sep) == SplitFrom(s, sep, 1, <<>>)
Last(seq) == seq[Len(seq)]

\* file.filename.split("_")[-1].split(".")[0]: the stem of the last "_" piece.
Stem(filename) == Split(Last(Split(filename, "_")), ".")[1]
\* ...[-1] of the stem: IndexError on an empty stem.
StemIndexError(filename) == Len(Stem(filename)) = 0
QNumOf(filename) == Last(Stem(filename))

\* Uploaded file names, as character sequences.
FileNames ==
    { <<"a", "_", "1", ".", "w", "a", "v">>,
      <<"a", "_", "2", ".", "w", "a", "v">>,
      <<"q", "1", "_", "3", ".", "w", "a", "v">>,
      <<"a", "_", "7", ".", "w", "a", "v">>,
      <<"3", "_", "x", ".", "w", "a", "v">>,
      <<"a", "_", ".", "w", "a", "v">> }

(* ----------------------- inference service ---------------------------- *)
\* The JSON object the inference service answers with. The coherence tokens
\* are the service's Korean words, written here in ASCII romanisation:
\* "najeum" (low), "junggan" (medium), "nopeum" (high).
Bundle(coh) ==
    [wpm |-> 120, mlr |-> 7, pause |-> 2,
     grammar |-> [phase_2 |-> [score |-> 3]], mpr |-> 80, coherence |-> coh]
NoOutput ==
    [wpm |-> 0, mlr |-> 0, pause |-> 0,
     grammar |-> [phase_2 |-> [score |-> 0]], mpr |-> 0, coherence |-> ""]
\* The bundle for the recording at path: the speaking rate differs with the
\* question answered (the last component of the path when it is a digit).
QuestionOf(path) ==
    IF Len(path) > 0 /\ IsDigit(Last(path)) THEN IntOf(Last(path)) ELSE 0
BundleFor(path, coh) == [Bundle(coh) EXCEPT !.wpm = @ + QuestionOf(path)]
\* What requests.post(...).json() can do for the recording at path: raise, or
\* return the metric bundle, its coherence one of the tokens toks.
InferenceReplies(path, toks) ==
    { [raises |-> TRUE, body |-> NoOutput] }
        \cup { [raises |-> FALSE, body |-> BundleFor(path, coh)] : coh \in toks }

(* ------------------------------ state --------------------------------- *)
VARIABLES
    today,      \* the server's calendar date (datetime.now())
    questions,  \* dates for which a Question row exists
    tokens,     \* coherence tokens the inference service emits
    tests,      \* the Test table, in insertion order
    scores,     \* the Score table, in insertion order
    streak,     \* User.streak, per user
    done,       \* User.done flag, per user
    subs,       \* the POST /test requests: position and locals
    resp,       \* the latest response of POST /test
    fired       \* history: runs of the completion side effect per user and date

vars == <<today, questions, tokens, tests, scores, streak, done, subs, resp, fired>>

NoPath == <<>>
IdleSub ==
    [pc |-> "idle", user |-> 0, q_num |-> "", path |-> NoPath,
     output |-> NoOutput]
\* A request that was answered: its locals are gone.
ClosedSub == [IdleSub EXCEPT !.pc = "closed"]
NoResp == [user |-> 0, status |-> 0, detail |-> ""]

\* Empty Test and Score tables on day 1, whose Question is published; the
\* Question of day 2 is not. The inference service emits a mapped token.
Init ==
    /\ today = 1
    /\ questions = {1}
    /\ tokens = {"nopeum"}
    /\ tests = <<>>
    /\ scores = <<>>
    /\ streak = [u \in Users |-> 0]
    /\ done = [u \in Users |-> FALSE]
    /\ subs = [s \in SubIds |-> IdleSub]
    /\ resp = NoResp
    /\ fired = [u \in Users |-> [d \in Days |-> 0]]

(* ---------------------------- repository ------------------------------ *)
\* get_questions_by_date: whether the select finds the date's Question.
get_questions_by_date(date) == date \in questions

\* Variant: a row with the same user, date and q_num is replaced.
create_test_Upsert(table, test) ==
    IF \E i \in 1..Len(table) :
          /\ table[i].user_id = test.user_id
          /\ table[i].createddate = test.createddate
          /\ table[i].q_num = test.q_num
    THEN [i \in 1..Len(table) |->
            IF /\ table[i].user_id = test.user_id
               /\ table[i].createddate = test.createddate
               /\ table[i].q_num = test.q_num
            THEN test ELSE table[i]]
    ELSE Append(table, test)
\* Variant: the new Score replaces the table's rows.
create_score_ReplacesAll(table, score) == <<score>>
\* create_test / create_score: session.add + commit, a plain INSERT.
create_test(table, test) == Append(table, test)
create_score(table, score) == Append(table, score)

\* Variant: the filter leaves out Test.user_id.
TestMatches_AnyUser(date, user, q_num) ==
    { i \in 1..Len(tests) :
        /\ tests[i].createddate = date
        /\ tests[i].q_num = q_num }
\* Indices of the Test rows matching the filter of get_result_by_q_num.
TestMatches(date, user, q_num) ==
    { i \in 1..Len(tests) :
        /\ tests[i].createddate = date
        /\ tests[i].user_id = user
        /\ tests[i].q_num = q_num }
Min(S) == CHOOSE x \in S : \A y \in S : x <= y
\* session.scalar: the first matching row; None (here 0) when there is none.
get_result_by_q_num(date, user, q_num) ==
    IF TestMatches(date, user, q_num) = {} THEN 0
    ELSE Min(TestMatches(date, user, q_num))

\* Indices of the Score rows matching the filter of get_result.
ScoreMatches(date, user) ==
    { i \in 1..Len(scores) : scores[i].date = date /\ scores[i].user_id = user }

(* ------------------------------- User --------------------------------- *)
\* User.addstreak() and User.done(), then create_update_user's commit.
addstreak(user) == [streak EXCEPT ![user] = @ + 1]
set_done(user) == [done EXCEPT ![user] = TRUE]
create_update_user(newStreak, newDone) ==
    /\ streak' = newStreak
    /\ done' = newDone

(* ----------------------------- POST /test ----------------------------- *)
\* Requests take the slots in order.
FreeSlot(s) ==
    /\ subs[s].pc = "idle"
    /\ \A r \in SubIds : r < s => subs[r].pc # "idle"

\* The handler ends with user u's request s answered by status and detail:
\* an HTTPException's own, or 500 and the name of an unhandled exception.
Respond(s, u, status, detail) ==
    /\ subs' = [subs EXCEPT ![s] = ClosedSub]
    /\ resp' = [user |-> u, status |-> status, detail |-> detail]
Fail(s, e) == Respond(s, subs[s].user, 500, e)

\* Variant: the lookup's None is not checked.
QuestionNotFound_Unchecked(date) == FALSE
\* get_question_handler: the Question, or HTTPException 404.
QuestionNotFound(date) == ~get_questions_by_date(date)

\* upload_test up to the first await: the Question lookup and q_num.
Submit(s, u, f) ==
    /\ FreeSlot(s)
    /\ IF QuestionNotFound(today)
       THEN Respond(s, u, 404, "Question Not Found")
       ELSE IF StemIndexError(f)
       THEN Respond(s, u, 500, "IndexError")
       ELSE /\ subs' = [subs EXCEPT ![s] =
                    [IdleSub EXCEPT !.pc = "transcode", !.user = u,
                                    !.q_num = QNumOf(f)]]
            /\ UNCHANGED resp
    /\ UNCHANGED <<today, questions, tokens, tests, scores, streak, done, fired>>

\* f"./uploads/{user_id}/{uuid4()}_{q_num}.wav"; the random uuid is left out.
UploadPath(user, q_num) == <<"uploads", user, q_num>>

\* Variant: the except clause swallows the failure and the path is returned.
Transcode_SwallowsFailure(s, ok) ==
    /\ subs[s].pc = "transcode"
    /\ subs' = [subs EXCEPT ![s].pc = "infer",
                    ![s].path = UploadPath(subs[s].user, subs[s].q_num)]
    /\ UNCHANGED <<today, questions, tokens, tests, scores, streak, done, resp, fired>>

\* save_and_process_audio: the resampled file's path when librosa and
\* soundfile succeed (ok); otherwise the except clause, whose
\* HTTPException(status_csode=...) is itself a TypeError.
Transcode(s, ok) ==
    /\ subs[s].pc = "transcode"
    /\ IF ok
       THEN /\ subs' = [subs EXCEPT ![s].pc = "infer",
                           ![s].path = UploadPath(subs[s].user, subs[s].q_num)]
            /\ UNCHANGED resp
       ELSE Fail(s, "TypeError")
    /\ UNCHANGED <<today, questions, tokens, tests, scores, streak, done, fired>>

\* Variant: the reply is not awaited, the handler goes on without it.
Infer_NotAwaited(s, r) ==
    /\ subs[s].pc = "infer"
    /\ subs' = [subs EXCEPT ![s].pc = "persist"]
    /\ UNCHANGED <<today, questions, tokens, tests, scores, streak, done, resp, fired>>
\* run_inference: requests.post(...).json() raises, or returns the body.
Infer(s, r) ==
    /\ subs[s].pc = "infer"
    /\ IF r.raises
       THEN Fail(s, "RequestException")
       ELSE /\ subs' = [subs EXCEPT ![s].pc = "persist", ![s].output = r.body]
            /\ UNCHANGED resp
    /\ UNCHANGED <<today, questions, tokens, tests, scores, streak, done, fired>>

\* Test.create(request): the row to insert.
TestRow(sub, date) ==
    [user_id |-> sub.user, q_num |-> IntOf(sub.q_num), createddate |-> date,
     path |-> sub.path, wpm |-> sub.output.wpm, mlr |-> sub.output.mlr,
     pause |-> sub.output.pause, grammar |-> sub.output.grammar,
     mpr |-> sub.output.mpr, coherence |-> sub.output.coherence]

\* Variant: the one-character string compared with the string "3".
IsThird_StrCompare(q_num) == PyEq(PyStr(q_num), PyStr("3"))
\* Variant: the comparison made on the parsed integer.
IsThird_IntCompare(q_num) == IsDigit(q_num) /\ IntOf(q_num) = 3
\* Line 96: q_num is the one-character string, compared with the int 3.
IsThird(q_num) == PyEq(PyStr(q_num), PyInt(3))

\* Lines 86-101, which hold no await: build the request and the row, insert
\* it, run the completion side effect, respond.
Persist(s) ==
    /\ subs[s].pc = "persist"
    /\ IF ~IsDigit(subs[s].q_num)
       THEN Fail(s, "ValueError") /\ UNCHANGED <<tests, streak, done, fired>>
       ELSE /\ tests' = create_test(tests, TestRow(subs[s], today))
            /\ IF IsThird(subs[s].q_num)
               THEN /\ create_update_user(addstreak(subs[s].user),
                                          set_done(subs[s].user))
                    /\ fired' = [fired EXCEPT ![subs[s].user][today] = @ + 1]
               ELSE UNCHANGED <<streak, done, fired>>
            /\ Respond(s, subs[s].user, 200, "")
    /\ UNCHANGED <<today, questions, tokens, scores>>

(* --------------------------- POST /get_score --------------------------- *)
\* Variant: int() of the mean, which truncates.
PyRound_Truncates(num, den) == num \div den
\* round() of num/den (den > 0, num >= 0): ties go to the even neighbour.
PyRound(num, den) ==
    LET q == num \div den
        r == num % den
    IN  IF 2 * r < den THEN q
        ELSE IF 2 * r > den THEN q + 1
        ELSE IF q % 2 = 0 THEN q ELSE q + 1

class_mapping == [NH |-> 0, IL |-> 1, IM |-> 2, IH |-> 3, AL |-> 4]
\* [key for key, value in class_mapping.items() if value == avg][0]
predicted_class(avg) ==
    CHOOSE key \in DOMAIN class_mapping : class_mapping[key] = avg

Sum3(p) == p[1] + p[2] + p[3]

\* collect_tests_scores: the rows of q_num 1, 2, 3; test.wpm on a missing
\* row (None) is an AttributeError.
collect_tests_scores(date, user) ==
    [q \in 1..3 |-> get_result_by_q_num(date, user, q)]
\* Variant: missing rows are skipped, only an empty session raises.
CollectFails_SkipMissing(date, user) ==
    \A q \in 1..3 : collect_tests_scores(date, user)[q] = 0
CollectFails(date, user) ==
    \E q \in 1..3 : collect_tests_scores(date, user)[q] = 0

\* The row of the DataFrame for one Test, in the order of columns.
FeatureRow(test) ==
    <<test.wpm, test.mlr, test.pause, test.grammar.phase_2.score, test.mpr,
      test.coherence>>
\* collect_tests_scores' DataFrame, when no row is missing.
user_scores(date, user) ==
    [q \in 1..3 |-> FeatureRow(tests[collect_tests_scores(date, user)[q]])]

\* Series.map(coherence_mapping): a token that is no key becomes NaN.
coherence_mapping == [najeum |-> 0, junggan |-> 1, nopeum |-> 2]
NaN == "NaN"
MapCoherence(tok) ==
    IF tok \in DOMAIN coherence_mapping THEN coherence_mapping[tok] ELSE NaN
\* The DataFrame handed to loaded_model.predict: no check precedes it.
classifier_input(date, user) ==
    [q \in 1..3 |->
        [user_scores(date, user)[q] EXCEPT ![6] = MapCoherence(@)]]

\* The classifier's class index for each of the three rows.
PredictionInputs == { <<1, 1, 2>>, <<3, 4, 4>> }

\* The response of get_score_handler: modelOk is whether the classifier
\* loads, preds what it predicts for the three rows.
GetScoreResponse(u, modelOk, preds) ==
    IF CollectFails(today, u)
    THEN [status |-> 500, error |-> "AttributeError", score |-> ""]
    ELSE IF ~modelOk
    THEN [status |-> 500, error |-> "CatBoostError", score |-> ""]
    ELSE [status |-> 200, error |-> "",
          score |-> predicted_class(PyRound(Sum3(preds), 3))]

\* get_score_handler, whole: the Score row is inserted when nothing raised.
GetScore(u, modelOk, preds) ==
    /\ Len(scores) < MaxScores
    /\ LET answer == GetScoreResponse(u, modelOk, preds)
       IN  IF answer.status = 200
           THEN scores' = create_score(scores,
                    [user_id |-> u, date |-> today, score |-> answer.score])
           ELSE UNCHANGED scores
    /\ UNCHANGED <<today, questions, tokens, tests, streak, done, subs, resp, fired>>

(* ------------------------- GET /me/result ----------------------------- *)
\* session.scalar: the first matching Score row; None (here 0) when none.
get_result(date, user) ==
    IF ScoreMatches(date, user) = {} THEN 0 ELSE Min(ScoreMatches(date, user))
\* Schema.from_orm(None): pydantic finds no attribute on None, so it raises
\* a ValidationError when the schema has a required field, and builds an
\* object of defaults when it has none. No HTTPException is raised.
FromOrmNone ==
    { [status |-> 500, error |-> "ValidationError", row |-> 0],
      [status |-> 200, error |-> "", row |-> 0] }
\* get_result_by_date: the responses the handler can give; row is the index
\* of the row returned.
get_result_by_date(date, user) ==
    IF get_result(date, user) = 0 THEN FromOrmNone
    ELSE { [status |-> 200, error |-> "", row |-> get_result(date, user)] }
\* get_result_by_question, likewise.
get_result_by_question(date, q_num, user) ==
    IF get_result_by_q_num(date, user, q_num) = 0 THEN FromOrmNone
    ELSE { [status |-> 200, error |-> "",
            row |-> get_result_by_q_num(date, user, q_num)] }

(* ------------------------------ calendar ------------------------------ *)
NextDay ==
    /\ today + 1 \in Days
    /\ today' = today + 1
    /\ UNCHANGED <<questions, tokens, tests, scores, streak, done, subs, resp, fired>>

Next ==
    \/ \E s \in SubIds, u \in Users, f \in FileNames : Submit(s, u, f)
    \/ \E s \in SubIds, ok \in BOOLEAN : Transcode(s, ok)
    \/ \E s \in SubIds :
          \E r \in InferenceReplies(subs[s].path, tokens) : Infer(s, r)
    \/ \E s \in SubIds : Persist(s)
    \/ \E u \in Users, modelOk \in BOOLEAN, preds \in PredictionInputs :
          GetScore(u, modelOk, preds)
    \/ NextDay

Spec == Init /\ [][Next]_vars

\* The same system with an inference service that also emits "botong"
\* (average), a token coherence_mapping has no key for.
InitTokens ==
    /\ today = 1
    /\ questions = {1}
    /\ tokens = {"nopeum", "botong"}
    /\ tests = <<>>
    /\ scores = <<>>
    /\ streak = [u \in Users |-> 0]
    /\ done = [u \in Users |-> FALSE]
    /\ subs = [s \in SubIds |-> IdleSub]
    /\ resp = NoResp
    /\ fired = [u \in Users |-> [d \in Days |-> 0]]
SpecTokens == InitTokens /\ [][Next]_vars

(* ------------------- scoring of a complete session -------------------- *)
\* The Test row a successful POST /test of user u for question q leaves.
AnswerRow(u, q, coh) ==
    LET c == DigitChars[q + 1]
    IN  TestRow([IdleSub EXCEPT !.user = u, !.q_num = c,
                                !.path = UploadPath(u, c),
                                !.output = BundleFor(UploadPath(u, c), coh)], 1)
Orders == { p \in [1..3 -> 1..3] : { p[i] : i \in 1..3 } = 1..3 }
\* Every prediction of the classifier for three rows: a class index each.
AllPredictions == [1..3 -> 0..4]

\* User 1 has answered the three questions of day 1, in any of the six
\* orders; every request was answered.
InitRound ==
    /\ today = 1
    /\ questions = {1}
    /\ tokens = {"nopeum"}
    /\ tests \in { [i \in 1..3 |-> AnswerRow(1, p[i], "nopeum")] : p \in Orders }
    /\ scores = <<>>
    /\ streak = [u \in Users |-> 0]
    /\ done = [u \in Users |-> FALSE]
    /\ subs = [s \in SubIds |-> ClosedSub]
    /\ resp = [user |-> 1, status |-> 200, detail |-> ""]
    /\ fired = [u \in Users |-> [d \in Days |-> 0]]
\* POST /get_score on it, the classifier predicting anything it can.
NextRound ==
    \E u \in Users, modelOk \in BOOLEAN, preds \in AllPredictions :
        GetScore(u, modelOk, preds)
SpecRound == InitRound /\ [][NextRound]_vars

(* ----------------------------- two users ------------------------------ *)
BothUsers == {1, 2}
\* Users 1 and 2 have each answered questions 1 and 2 of day 1; MaxUserSubs
\* requests are still to be made.
InitUsers ==
    /\ today = 1
    /\ questions = {1}
    /\ tokens = {"nopeum"}
    /\ tests = << AnswerRow(1, 1, "nopeum"), AnswerRow(2, 1, "nopeum"),
                  AnswerRow(2, 2, "nopeum"), AnswerRow(1, 2, "nopeum") >>
    /\ scores = <<>>
    /\ streak = [u \in BothUsers |-> 0]
    /\ done = [u \in BothUsers |-> FALSE]
    /\ subs = [s \in SubIds |-> IF s <= MaxUserSubs THEN IdleSub ELSE ClosedSub]
    /\ resp = NoResp
    /\ fired = [u \in BothUsers |-> [d \in Days |-> 0]]
\* The answer to question 3, and a repeated answer to question 1.
UserFiles ==
    { <<"q", "1", "_", "3", ".", "w", "a", "v">>,
      <<"a", "_", "1", ".", "w", "a", "v">> }
UserPredictions == { <<1, 1, 2>> }
\* The requests either user makes on that day.
NextUsers ==
    \/ \E s \in SubIds, u \in BothUsers, f \in UserFiles : Submit(s, u, f)
    \/ \E s \in SubIds, ok \in BOOLEAN : Transcode(s, ok)
    \/ \E s \in SubIds :
          \E r \in InferenceReplies(subs[s].path, tokens) : Infer(s, r)
    \/ \E s \in SubIds : Persist(s)
    \/ \E u \in BothUsers, modelOk \in BOOLEAN, preds \in UserPredictions :
          GetScore(u, modelOk, preds)
SpecUsers == InitUsers /\ [][NextUsers]_vars

(* ============================== claims ================================ *)
\* Indices of the Test rows of one user and date.
SessionTests(u, d) ==
    { i \in 1..Len(tests) : tests[i].user_id = u /\ tests[i].createddate = d }
NumTests(u, d) == Cardinality(SessionTests(u, d))
InFlight(u) ==
    \E s \in SubIds :
        subs[s].user = u /\ subs[s].pc \in {"transcode", "infer", "persist"}
\* q_num 1, 2 and 3 submitted once each for (u, d), and nothing else.
OnceEach(u, d) ==
    /\ NumTests(u, d) = 3
    /\ \A q \in 1..3 : Cardinality(TestMatches(d, u, q)) = 1

\* C1: once q_num 1, 2 and 3 have each been submitted once for a (user, date)
\* with a published Question, the completion side effect has run exactly once
\* (streak incremented, done set), and it never runs while the persisted
\* count for (user, date) is below 3.
C1_CompletionOnThirdSubmission ==
    \A u \in Users, d \in Days :
        /\ (d \in questions /\ OnceEach(u, d) /\ ~InFlight(u))
              => (fired[u][d] = 1 /\ streak[u] >= 1 /\ done[u])
        /\ fired[u][d] > 0 => NumTests(u, d) >= 3

\* C2: under every interleaving of submissions for one (user, date), repeated
\* q_num included, the completion side effect runs at most once for that
\* (user, date), and the streak grows by at most one per date.
C2_CompletionAtMostOnce ==
    \A u \in Users :
        /\ \A d \in Days : fired[u][d] <= 1
        /\ streak[u] <= Cardinality({ d \in Days : fired[u][d] > 0 })
\* Two submissions of q_num 3 for the same (user, date) have both persisted.
C2_Witness ==
    \E u \in Users, d \in Days :
        Cardinality(TestMatches(d, u, 3)) >= 2 /\ ~InFlight(u)

\* C3: every Score row of (user, date) has Test rows of q_num 1, 2 and 3 for
\* that (user, date).
C3_ScoreNeedsThreeTests ==
    \A i \in 1..Len(scores) :
        \A q \in 1..3 : TestMatches(scores[i].date, scores[i].user_id, q) # {}
C3_Witness == Len(scores) >= 1

\* C4: POST /get_score for a (user, date) with fewer than 3 Test rows ends
\* in the error IncompleteSession.
C4_IncompleteSessionError ==
    \A u \in Users, modelOk \in BOOLEAN, preds \in PredictionInputs :
        NumTests(u, today) < 3
            => GetScoreResponse(u, modelOk, preds).error = "IncompleteSession"

\* C5: at most one Test row exists for each (user, date, q_num).
C5_OneTestPerQuestion ==
    \A i, j \in 1..Len(tests) :
        ( /\ tests[i].user_id = tests[j].user_id
          /\ tests[i].createddate = tests[j].createddate
          /\ tests[i].q_num = tests[j].q_num ) => i = j

\* C6: every persisted Test row has q_num in {1, 2, 3}.
C6_QNumInRange == \A i \in 1..Len(tests) : tests[i].q_num \in {1, 2, 3}

\* C7: at most one Score row exists for each (user, date), however often
\* POST /get_score is repeated.
C7_OneScorePerSession ==
    \A u \in Users, d \in Days : Cardinality(ScoreMatches(d, u)) <= 1

\* C8: when the submission that brings the Test count of (user, date) to 3
\* returns (here with q_num 1, 2 and 3 submitted once each), a Score row for
\* (user, date) exists; the submission returned a Test, so it reported no
\* scoring error.
C8_ScoredWhenThirdReturns ==
    [][ \A s \in SubIds :
          ( /\ Persist(s)
            /\ resp'.status = 200
            /\ OnceEach(resp.user, today)' )
          => (ScoreMatches(today, resp.user) # {})'
      ]_vars

Tables == <<tests, scores, streak, done, fired>>

\* C9: a submission whose transcoding fails or whose inference call raises
\* ends in an error, with the Test and Score tables and the user's streak and
\* done flag unchanged; an answered submission does nothing more.
C9_FailedStepPersistsNothing ==
    [][ \A s \in SubIds :
          /\ Transcode(s, FALSE)
                => /\ subs'[s].pc = "closed"
                   /\ resp' = [user |-> subs[s].user, status |-> 500,
                                detail |-> "TypeError"]
                   /\ UNCHANGED Tables
          /\ \A r \in InferenceReplies(subs[s].path, tokens) :
                (Infer(s, r) /\ r.raises)
                    => /\ subs'[s].pc = "closed"
                       /\ resp' = [user |-> subs[s].user, status |-> 500,
                                    detail |-> "RequestException"]
                       /\ UNCHANGED Tables
          /\ subs[s].pc = "closed" => subs'[s] = subs[s]
      ]_vars
\* A submission that would have been the 3rd of its session failed in
\* transcoding or inference.
C9_Witness ==
    /\ resp.status = 500
    /\ resp.detail \in {"TypeError", "RequestException"}
    /\ NumTests(resp.user, today) = 2
    /\ \A s \in SubIds : subs[s].pc = "closed"

\* C10: a submission made on a date with no Question ends at once in
\* 404 Question Not Found, before transcoding and inference, with the Test
\* and Score tables and the user's streak and done flag unchanged.
C10_NoQuestionNotFound ==
    [][ \A s \in SubIds, u \in Users, f \in FileNames :
          (Submit(s, u, f) /\ today \notin questions)
          => /\ subs'[s] = ClosedSub
             /\ resp' = [user |-> u, status |-> 404,
                          detail |-> "Question Not Found"]
             /\ UNCHANGED Tables
      ]_vars
C10_Witness ==
    /\ resp.status = 404
    /\ resp.detail = "Question Not Found"
    /\ today \notin questions

\* Rows of the session's DataFrame whose token coherence_mapping has no key for.
UnmappedRows(u, d) ==
    { q \in 1..3 : user_scores(d, u)[q][6] \notin DOMAIN coherence_mapping }
\* C11: when a row of a complete session carries a coherence token outside
\* coherence_mapping, POST /get_score ends in the error UnmappedCategory, the
\* classifier is handed no NaN in its place, and no Score row is persisted.
C11_UnmappedCategoryError ==
    \A u \in Users :
        (~CollectFails(today, u) /\ UnmappedRows(u, today) # {})
        => /\ \A modelOk \in BOOLEAN, preds \in PredictionInputs :
                GetScoreResponse(u, modelOk, preds).error = "UnmappedCategory"
           /\ \A q \in 1..3 : classifier_input(today, u)[q][6] # NaN
           /\ ScoreMatches(today, u) = {}

\* The mean num/den (both positive or num zero) rounded to the nearest
\* integer, a tie going away from zero.
RoundHalfAway(num, den) == (2 * num + den) \div (2 * den)
ClassLabels == <<"NH", "IL", "IM", "IH", "AL">>
\* C12: for every tuple of class indices from 0..4 the classifier predicts
\* for the three rows, the Score row persisted by POST /get_score carries the
\* label at the index of the mean rounded half away from zero, and every
\* persisted label is one of NH, IL, IM, IH, AL.
C12_RoundedMeanLabel ==
    [][ /\ \A u \in Users, preds \in AllPredictions :
              GetScore(u, TRUE, preds)
              => scores' = Append(scores,
                     [user_id |-> u, date |-> today,
                      score |-> ClassLabels[RoundHalfAway(Sum3(preds), 3) + 1]])
        /\ \A i \in 1..Len(scores') :
              scores'[i].score \in { ClassLabels[k] : k \in 1..5 }
      ]_vars
\* Scoring runs have persisted the labels of [1,1,2] and of [3,4,4].
C12_Witness ==
    /\ \E i \in 1..Len(scores) :
          scores[i].score = predicted_class(PyRound(Sum3(<<1, 1, 2>>), 3))
    /\ \E i \in 1..Len(scores) :
          scores[i].score = predicted_class(PyRound(Sum3(<<3, 4, 4>>), 3))
    /\ \E i \in 1..Len(scores) : scores[i].score = "AL"
    /\ \E i \in 1..Len(scores) : scores[i].score = "IL"

\* C13: for every (user, date) with exactly 3 Test rows, collect_tests_scores
\* returns three rows, row q built from the Test of q_num q (q = 1, 2, 3), each
\* with the columns WPM, MLR, Pause, Grammar (phase_2 score), PR, Coherence
\* in that order, whatever the order in which the rows were inserted.
C13_FeatureRowsByQuestion ==
    \A u \in Users, d \in Days :
        NumTests(u, d) = 3
        => /\ ~CollectFails(d, u)
           /\ \A q \in 1..3 :
                 \E i \in SessionTests(u, d) :
                    /\ tests[i].q_num = q
                    /\ user_scores(d, u)[q] =
                          <<tests[i].wpm, tests[i].mlr, tests[i].pause,
                            tests[i].grammar.phase_2.score, tests[i].mpr,
                            tests[i].coherence>>
\* The same, for the sessions in which q_num 1, 2 and 3 were submitted once
\* each: row q is the row of the answer to question q.
C13_OnceEachRows ==
    \A u \in Users, d \in Days :
        OnceEach(u, d)
        => /\ ~CollectFails(d, u)
           /\ \A q \in 1..3, coh \in tokens :
                 user_scores(d, u)[q] = FeatureRow(AnswerRow(u, q, coh))

\* C14: GET /me/result/{date} for a (user, date) with no Score row, and
\* GET /me/result/{date}/{q_num} for a (user, date, q_num) with no Test row,
\* answer 404 Not Found and nothing else.
C14_MissingResultNotFound ==
    \A u \in Users, d \in Days :
        /\ ScoreMatches(d, u) = {}
              => \A r \in get_result_by_date(d, u) : r.status = 404
        /\ \A q \in 1..3 :
              TestMatches(d, u, q) = {}
                 => \A r \in get_result_by_question(d, q, u) : r.status = 404

\* C15: a POST /test that succeeds and leaves fewer than 3 Test rows for
\* (user, date) inserts its Test row and changes nothing else: the Score
\* table, the user's streak and the done flag are unchanged.
C15_EarlySubmissionOnlyAddsTest ==
    [][ \A s \in SubIds :
          ( /\ Persist(s)
            /\ resp'.status = 200
            /\ NumTests(subs[s].user, today)' < 3 )
          => /\ tests' = Append(tests, TestRow(subs[s], today))
             /\ UNCHANGED <<scores, streak, done, fired, today, questions>>
      ]_vars
\* The first submission of a session, for q_num 3, has succeeded.
C15_Witness ==
    /\ resp.status = 200
    /\ NumTests(resp.user, today) = 1
    /\ \E i \in SessionTests(resp.user, today) : tests[i].q_num = 3

\* C16: a Test row is never updated or removed: every step keeps the rows
\* there are, with their values; and each POST /test that succeeds adds
\* exactly one row, for the calling user, the current date and the q_num
\* submitted.
C16_TestRowsImmutable ==
    [][ /\ Len(tests') >= Len(tests)
        /\ \A i \in 1..Len(tests) : tests'[i] = tests[i]
        /\ \A s \in SubIds :
              (Persist(s) /\ resp'.status = 200)
              => /\ Len(tests') = Len(tests) + 1
                 /\ tests'[Len(tests')].user_id = subs[s].user
                 /\ tests'[Len(tests')].createddate = today
                 /\ tests'[Len(tests')].q_num = IntOf(subs[s].q_num)
      ]_vars
\* A q_num was submitted twice and then another one: the three rows are
\* there.
C16_Witness ==
    /\ Len(tests) = 3
    /\ tests[2].q_num = tests[1].q_num
    /\ tests[3].q_num # tests[1].q_num
    /\ resp.status = 200

\* C17: the steps of one POST /test happen in the order Question lookup,
\* transcoding, inference, insertion of the Test row, completion side effect:
\* a request moves only forward through them (or ends in an error), inference
\* starts with the path transcoding returned, the row is inserted with the
\* output inference returned, and the user's streak and done flag change
\* only in the step that inserts the row.
StepOrder ==
    { <<"idle", "transcode">>, <<"transcode", "infer">>,
      <<"infer", "persist">>, <<"persist", "closed">>,
      <<"idle", "closed">>, <<"transcode", "closed">>, <<"infer", "closed">> }
C17_StepsInOrder ==
    [][ /\ \A s \in SubIds :
              /\ subs'[s].pc # subs[s].pc
                    => <<subs[s].pc, subs'[s].pc>> \in StepOrder
              /\ (subs[s].pc = "idle" /\ subs'[s].pc = "transcode")
                    => get_questions_by_date(today)
              /\ subs'[s].pc = "infer"
                    => subs'[s].path = UploadPath(subs'[s].user, subs'[s].q_num)
              /\ subs'[s].pc = "persist"
                    => \E r \in InferenceReplies(subs'[s].path, tokens) :
                          ~r.raises /\ subs'[s].output = r.body
        /\ tests' # tests
              => \E s \in SubIds :
                    /\ subs[s].pc = "persist" /\ subs'[s].pc = "closed"
                    /\ subs[s].path # NoPath /\ subs[s].output # NoOutput
                    /\ tests' = Append(tests, TestRow(subs[s], today))
        /\ (streak' # streak \/ done' # done) => tests' # tests
      ]_vars
\* A request holds the path and the output, and is about to insert its row.
C17_Witness ==
    \E s \in SubIds :
        /\ subs[s].pc = "persist"
        /\ subs[s].path # NoPath
        /\ subs[s].output # NoOutput

\* C19: POST /get_score, succeeding or failing, changes no Test row and
\* neither the streak nor the done flag of any user; all it can change is
\* the Score table, by inserting one row for the calling user and the
\* current date.
C19_ScoringRunOnlyAddsScore ==
    [][ \A u \in Users, modelOk \in BOOLEAN, preds \in PredictionInputs :
          GetScore(u, modelOk, preds)
          => /\ UNCHANGED <<tests, streak, done, subs, today, questions>>
             /\ \/ scores' = scores
                \/ \E label \in DOMAIN class_mapping :
                      scores' = Append(scores,
                          [user_id |-> u, date |-> today, score |-> label])
      ]_vars
\* Two scoring runs of one session have each inserted their row.
C19_Witness ==
    /\ Len(scores) = 2
    /\ scores[1].score # scores[2].score
    /\ scores[1].date = scores[2].date

\* What user b can observe and owns: the Test and Score rows, streak and
\* done flag, the requests in flight, and the answer each of b's requests
\* would get.
TestsOf(b) == SelectSeq(tests, LAMBDA t : t.user_id = b)
ScoresOf(b) == SelectSeq(scores, LAMBDA r : r.user_id = b)
ReadScore(d, b) ==
    { IF r.row = 0 THEN <<r.status, r.error>> ELSE <<r.status, scores[r.row]>> :
        r \in get_result_by_date(d, b) }
ReadTest(d, q, b) ==
    { IF r.row = 0 THEN <<r.status, r.error>> ELSE <<r.status, tests[r.row]>> :
        r \in get_result_by_question(d, q, b) }
ViewOf(b) ==
    << TestsOf(b), ScoresOf(b), streak[b], done[b],
       [s \in SubIds |-> IF subs[s].user = b THEN subs[s] ELSE IdleSub],
       [m \in BOOLEAN |-> [p \in PredictionInputs |-> GetScoreResponse(b, m, p)]],
       [d \in Days |-> ReadScore(d, b)],
       [d \in Days |-> [q \in 1..3 |-> ReadTest(d, q, b)]] >>
\* C18: a step of a request of user a (POST /test in any of its steps,
\* POST /get_score; the reads change nothing) leaves every other user b's
\* Test rows, Score rows, streak and done flag as they are, and leaves the
\* answer to each request b can make as it is.
C18_UsersIndependent ==
    [][ \A a \in BothUsers : \A b \in BothUsers \ {a} :
          ( \/ \E s \in SubIds, f \in UserFiles : Submit(s, a, f)
            \/ \E s \in SubIds :
                  /\ subs[s].user = a
                  /\ \/ \E ok \in BOOLEAN : Transcode(s, ok)
                     \/ \E r \in InferenceReplies(subs[s].path, tokens) :
                           Infer(s, r)
                     \/ Persist(s)
            \/ \E modelOk \in BOOLEAN, preds \in UserPredictions :
                  GetScore(a, modelOk, preds) )
          => ViewOf(b)' = ViewOf(b)
      ]_vars
\* Both users have completed their sessions by a third answer and each has
\* a Score row.
C18_Witness ==
    /\ \A u \in BothUsers : OnceEach(u, today) /\ ScoresOf(u) # <<>>
    /\ Len(tests) = 6

====
